---- MODULE Spec2Model ----
(***************************************************************************)
(* A model of the kauth broker: the token manager (pkg/jwt), the login     *)
(* flow handler with its in-memory notification table (pkg/handlers/       *)
(* login.go), the session store client (pkg/session/client.go), the        *)
(* store-watch notifier (pkg/handlers/login_crd.go) and the refresh flow   *)
(* handler (pkg/handlers/refresh.go).                                      *)
(*                                                                         *)
(* Go strings that hold plain text are TLA+ strings.  An envelope (the     *)
(* string a token operation returns) is a record that keeps the layers     *)
(* the code builds: base64( mac || nonce || AEAD(json) ).  A Go pointer    *)
(* or a channel buffer of capacity 1 is a sequence of length 0 or 1.       *)
(* One step of the clock is longer than the TTL of an envelope and the     *)
(* 30 s an entry of the notification table is kept.                        *)
(***************************************************************************)
EXTENDS Integers, Sequences, FiniteSets, TLC

VARIABLES
    now,               \* the wall clock, in steps
    sseNotifications,  \* per replica: LoginHandler.sseNotifications (state -> *SSENotification)
    chans,             \* per watch request: its listener channel (chan StatusResponse, 1)
    issued,            \* per state: the session envelope /start-login returned
    watch,             \* per /watch request: position and what the client saw
    callback,          \* per /callback request: position and what was answered
    store,             \* the OAuthSession objects of the cluster, by state
    events,            \* per replica: the undelivered events of the watch stream watchSessions reads
    held,              \* the refresh envelopes a client holds
    refresh,           \* the last /refresh exchange: request and response
    call,              \* the last call of a library operation: arguments and result
    visitors,          \* RateLimiter.visitors: the limiter of a key (nil: the empty sequence)
    tasks,             \* the background tasks of a replica: where watchSessions and cleanupSessions stand
    objects            \* the OAuthSession objects of the cluster, each under its resource name

loginVars == <<sseNotifications, chans, issued, watch, callback>>
storeVars == <<store, events>>
refreshVars == <<held, refresh>>
vars == <<now, sseNotifications, chans, issued, watch, callback,
          store, events, held, refresh, call, visitors, tasks, objects>>

(***************************************************************************)
(* Bounds of the model.                                                    *)
(***************************************************************************)
MaxTime == 1        \* the clock stops after this many steps
MaxWatch == 1       \* /watch requests
MaxCallback == 1    \* /callback requests
MaxQueue == 1       \* undelivered events a watch stream buffers
MaxRotation == 2    \* envelopes /refresh issues in one run

Replicas == {"A", "B"}
FirstReplica == "A"     \* replicas are interchangeable: a login starts on this one
States == {"s1"}
UnknownState == "s0"    \* a state no /start-login ever generated
Emails == {"", "u@e", "v@e"}
UpstreamTokens == {"rt1", "rt2"}

(***************************************************************************)
(* Configuration (cmd/kauth-server/main.go), in steps of the clock.        *)
(***************************************************************************)
SessionTTL == 0         \* cfg.SessionTTL: over within the step
RefreshTokenTTL == 0    \* cfg.RefreshTokenTTL: over within the step
RotationWindow == 2     \* cfg.RotationWindow
SSECleanupTTL == 0      \* the 30 s of cleanupSSENotifications: over within the step
AllowedGroups == <<"admins">>
ClusterName == "kubernetes"
GroupLists == {<<>>, <<"admins">>, <<"Admins", "dev">>}

(***************************************************************************)
(* pkg/jwt: the token manager.                                             *)
(***************************************************************************)
SigningKey == "signing-key"
EncryptionKey == "encryption-key"
OtherKey == "other-key"
Nonces == {"n1"}

ErrNone == "nil"
ErrInvalidToken == "invalid token"
ErrExpiredToken == "token expired"
ErrInvalidSignature == "invalid signature"
ErrDecrypt == "failed to decrypt"

EmptyString == [enc |-> "empty"]
Garbage == [enc |-> "garbage"]

\* a variant that leaves the verifier out of the payload
MarshalSessionNoVerifier(s) ==
    [state |-> s.State, created_at |-> s.CreatedAt, expires_at |-> s.ExpiresAt]

\* SessionToken / RefreshToken as encoding/json writes them
MarshalSession(s) ==
    [state |-> s.State, verifier |-> s.Verifier,
     created_at |-> s.CreatedAt, expires_at |-> s.ExpiresAt]

MarshalRefresh(t) ==
    [user_email |-> t.UserEmail, oidc_refresh_token |-> t.OIDCRefreshToken,
     rotation_counter |-> t.RotationCounter,
     issued_at |-> t.IssuedAt, expires_at |-> t.ExpiresAt]

\* bytes that are no JSON text
NotJson == [raw |-> "not json"]

\* json.Unmarshal returns an error on bytes that are no JSON text
JsonValid(data) == "raw" \notin DOMAIN data

\* json.Unmarshal: a key the object lacks leaves the field at its zero value
JsonField(obj, key, zero) == IF key \in DOMAIN obj THEN obj[key] ELSE zero

UnmarshalSession(obj) ==
    [State |-> JsonField(obj, "state", ""),
     Verifier |-> JsonField(obj, "verifier", ""),
     CreatedAt |-> JsonField(obj, "created_at", 0),
     ExpiresAt |-> JsonField(obj, "expires_at", 0)]

UnmarshalRefresh(obj) ==
    [UserEmail |-> JsonField(obj, "user_email", ""),
     OIDCRefreshToken |-> JsonField(obj, "oidc_refresh_token", ""),
     RotationCounter |-> JsonField(obj, "rotation_counter", 0),
     IssuedAt |-> JsonField(obj, "issued_at", 0),
     ExpiresAt |-> JsonField(obj, "expires_at", 0)]

\* gcm.Seal(nonce, nonce, plaintext, nil)
encrypt(key, nonce, plaintext) ==
    [key |-> key, nonce |-> nonce, plain |-> plaintext]

\* the authentication tag of a sealed box matches only the bytes gcm.Seal made
Authentic(ciphertext) ==
    ciphertext.nonce \in Nonces /\ "flipped" \notin DOMAIN ciphertext.plain

\* fails on bytes shorter than a nonce; gcm.Open fails under another key
\* and on bytes changed after sealing
decrypt(key, ciphertext) ==
    IF "nonce" \notin DOMAIN ciphertext
    THEN [err |-> ErrDecrypt, plain |-> <<>>]
    ELSE IF ciphertext.key = key /\ Authentic(ciphertext)
         THEN [err |-> ErrNone, plain |-> ciphertext.plain]
         ELSE [err |-> ErrDecrypt, plain |-> <<>>]

\* HMAC-SHA256 over data, prepended to data
sign(key, data) == [mac |-> [key |-> key, over |-> data], data |-> data]

\* a variant that takes every MAC for good
verifyAnything(key, signed) == [err |-> ErrNone, data |-> signed.data]

verify(key, signed) ==
    IF signed.mac = [key |-> key, over |-> signed.data]
    THEN [err |-> ErrNone, data |-> signed.data]
    ELSE [err |-> ErrInvalidSignature, data |-> <<>>]

Base64Encode(signed) == [enc |-> "b64", bytes |-> signed]

Base64Decode(token) ==
    IF token.enc = "b64" THEN [err |-> ErrNone, bytes |-> token.bytes]
    ELSE IF token.enc = "empty"
         THEN [err |-> ErrNone, bytes |-> [mac |-> <<>>, data |-> <<>>]]
         ELSE [err |-> ErrInvalidToken, bytes |-> <<>>]

CreateSessionToken(state, verifier, ttl, t, nonce) ==
    Base64Encode(sign(SigningKey, encrypt(EncryptionKey, nonce,
        MarshalSession([State |-> state, Verifier |-> verifier,
                        CreatedAt |-> t, ExpiresAt |-> t + ttl]))))

CreateRefreshToken(userEmail, oidcRefreshToken, rotationCounter, ttl, t, nonce) ==
    Base64Encode(sign(SigningKey, encrypt(EncryptionKey, nonce,
        MarshalRefresh([UserEmail |-> userEmail,
                        OIDCRefreshToken |-> oidcRefreshToken,
                        RotationCounter |-> rotationCounter,
                        IssuedAt |-> t, ExpiresAt |-> t + ttl]))))

\* the steps of a validation, in the order the code runs them
ValidationSteps == <<"base64", "verify", "decrypt", "unmarshal", "expiry">>

NoSession == UnmarshalSession(<<>>)
NoRefresh == UnmarshalRefresh(<<>>)

\* a variant without the expiry check
ValidateSessionTokenNoExpiry(token, t) ==
    IF token.enc = "b64" /\ verify(SigningKey, token.bytes).err = ErrNone
       /\ decrypt(EncryptionKey, token.bytes.data).err = ErrNone
    THEN [err |-> ErrNone,
          session |-> UnmarshalSession(decrypt(EncryptionKey, token.bytes.data).plain),
          steps |-> ValidationSteps]
    ELSE [err |-> ErrInvalidToken, session |-> NoSession, steps |-> <<>>]

ValidateSessionToken(token, t) ==
    LET dec == Base64Decode(token)
        ver == verify(SigningKey, dec.bytes)
        pla == decrypt(EncryptionKey, ver.data)
        ses == UnmarshalSession(pla.plain)
        failed(e, n) == [err |-> e, session |-> NoSession,
                         steps |-> SubSeq(ValidationSteps, 1, n)]
    IN  IF dec.err # ErrNone THEN failed(ErrInvalidToken, 1)
        ELSE IF ver.err # ErrNone THEN failed(ver.err, 2)
        ELSE IF pla.err # ErrNone THEN failed(pla.err, 3)
        ELSE IF ~JsonValid(pla.plain) THEN failed(ErrInvalidToken, 4)
        ELSE IF t > ses.ExpiresAt THEN failed(ErrExpiredToken, 5)
        ELSE [err |-> ErrNone, session |-> ses, steps |-> ValidationSteps]

\* a variant that turns down an envelope rotated more often than the window
ValidateRefreshTokenInWindow(token, allowedRotationWindow, t) ==
    LET pla == IF token.enc = "b64" /\ verify(SigningKey, token.bytes).err = ErrNone
               THEN decrypt(EncryptionKey, token.bytes.data)
               ELSE [err |-> ErrInvalidToken, plain |-> <<>>]
        ref == UnmarshalRefresh(pla.plain)
    IN  IF pla.err # ErrNone \/ ref.RotationCounter > allowedRotationWindow
        THEN [err |-> ErrInvalidToken, refresh |-> NoRefresh]
        ELSE IF t > ref.ExpiresAt
             THEN [err |-> ErrExpiredToken, refresh |-> NoRefresh]
             ELSE [err |-> ErrNone, refresh |-> ref]

\* a variant without the expiry check
ValidateRefreshTokenNoExpiry(token, allowedRotationWindow, t) ==
    IF token.enc = "b64" /\ verify(SigningKey, token.bytes).err = ErrNone
       /\ decrypt(EncryptionKey, token.bytes.data).err = ErrNone
    THEN [err |-> ErrNone,
          refresh |-> UnmarshalRefresh(decrypt(EncryptionKey, token.bytes.data).plain)]
    ELSE [err |-> ErrInvalidToken, refresh |-> NoRefresh]

ValidateRefreshToken(token, allowedRotationWindow, t) ==
    LET dec == Base64Decode(token)
        ver == verify(SigningKey, dec.bytes)
        pla == decrypt(EncryptionKey, ver.data)
        ref == UnmarshalRefresh(pla.plain)
        failed(e, n) == [err |-> e, refresh |-> NoRefresh,
                         steps |-> SubSeq(ValidationSteps, 1, n)]
    IN  IF dec.err # ErrNone THEN failed(ErrInvalidToken, 1)
        ELSE IF ver.err # ErrNone THEN failed(ver.err, 2)
        ELSE IF pla.err # ErrNone THEN failed(pla.err, 3)
        ELSE IF ~JsonValid(pla.plain) THEN failed(ErrInvalidToken, 4)
        ELSE IF t > ref.ExpiresAt THEN failed(ErrExpiredToken, 5)
        ELSE [err |-> ErrNone, refresh |-> ref, steps |-> ValidationSteps]

\* an envelope whose bytes were changed after signing
Tamper(token) ==
    IF token.enc = "b64"
    THEN [enc |-> "b64",
          bytes |-> [mac |-> token.bytes.mac,
                     data |-> [token.bytes.data EXCEPT !.nonce = "flipped"]]]
    ELSE token


(***************************************************************************)
(* pkg/handlers/login.go: the login flow handler.                          *)
(***************************************************************************)
StatusResponse(ready, kubeconfig, refreshToken, error) ==
    [Ready |-> ready, Kubeconfig |-> kubeconfig,
     RefreshToken |-> refreshToken, Error |-> error]

Failed(error) == StatusResponse(FALSE, EmptyString, EmptyString, error)

generateKubeconfig(email) == [enc |-> "yaml", cluster |-> ClusterName, user |-> email]

SSENotification(verifier, createdAt) ==
    [Verifier |-> verifier, Listeners |-> <<>>, Result |-> <<>>,
     CreatedAt |-> createdAt]

\* oauth2.GenerateVerifier(): a fresh non-empty string per login
GenerateVerifier(state) == "verifier-" \o state

\* h.sseNotifications[state] on replica r (nil: the empty sequence)
Entry(tbl, r, state) == IF state \in States THEN tbl[r][state] ELSE <<>>

Range(seq) == {seq[i] : i \in DOMAIN seq}

\* select { case listener <- status: default: } on a channel of capacity 1
TrySend(buf, msg) == IF buf = <<>> THEN <<msg>> ELSE buf

\* isUserAuthorized
isUserAuthorized(allowedGroups, userGroups) ==
    IF Len(allowedGroups) = 0 THEN TRUE
    ELSE \E i \in DOMAIN userGroups : \E j \in DOMAIN allowedGroups :
            userGroups[i] = allowedGroups[j]

\* notifyListeners: the table after the call
notifyTable(tbl, r, state, status) ==
    IF Entry(tbl, r, state) = <<>> THEN tbl
    ELSE [tbl EXCEPT ![r][state] =
            <<[@[1] EXCEPT !.Result = <<status>>, !.Listeners = <<>>]>>]

\* notifyListeners: the listener channels after the call
notifyChans(ch, tbl, r, state, status) ==
    IF Entry(tbl, r, state) = <<>> THEN ch
    ELSE [w \in DOMAIN ch |->
            IF w \in Range(Entry(tbl, r, state)[1].Listeners)
            THEN TrySend(ch[w], [msg |-> status, by |-> "notifyListeners"])
            ELSE ch[w]]

IdleWatch ==
    [pc |-> "idle", replica |-> "-", state |-> "-", code |-> 0, body |-> "",
     events |-> <<>>, end |-> ""]

IdleCallback ==
    [pc |-> "idle", replica |-> "-", state |-> "-", verifier |-> "",
     code |-> 0, body |-> "", notified |-> <<>>, minted |-> <<>>,
     email |-> "", groups |-> <<>>]

\* The tasks of a replica before they have run: watchSessions is about to
\* call Client.Watch, nobody holds h.sseMutex, the ticker of cleanupSessions
\* has not fired, and nobody has asked the broker to stop.
IdleTasks ==
    [notifier |-> [r \in Replicas |-> [pc |-> "open", event |-> <<>>, listeners |-> <<>>]],
     mutex |-> [r \in Replicas |-> ""],
     ticks |-> 0,
     stop |-> FALSE]

\* request ids are handed out in order
NextWatch(w) == watch[w].pc = "idle" /\ \A v \in 1..(w - 1) : watch[v].pc # "idle"
NextCallback(c) ==
    callback[c].pc = "idle" /\ \A d \in 1..(c - 1) : callback[d].pc # "idle"

HandleStartLogin(r, state) ==
    /\ issued[state] = <<>>
    /\ \E nonce \in Nonces :
        LET verifier == GenerateVerifier(state)
            sessionToken == CreateSessionToken(state, verifier, SessionTTL, now, nonce)
        IN  /\ sseNotifications' =
                 [sseNotifications EXCEPT ![r][state] = <<SSENotification(verifier, now)>>]
            /\ issued' = [issued EXCEPT ![state] =
                 <<[SessionToken |-> sessionToken, replica |-> r]>>]
    /\ UNCHANGED <<now, chans, watch, callback, storeVars, refreshVars, call, visitors, tasks, objects>>

\* what a client can put in ?session_token=
PresentedTokens ==
    {EmptyString, Garbage}
    \cup {issued[s][1].SessionToken : s \in {x \in States : issued[x] # <<>>}}
    \cup {Tamper(issued[s][1].SessionToken) : s \in {x \in States : issued[x] # <<>>}}

\* a variant that returns without writing the event
sendFinalStatusNothing(status) == <<>>

\* sendFinalStatus: the events written to the stream
sendFinalStatus(status) == <<status>>

\* HandleWatch up to the select loop (login.go:122-176)
WatchBegin(w, r, sessionToken, isFlusher) ==
    /\ NextWatch(w)
    /\ LET v == ValidateSessionToken(sessionToken, now)
           key == v.session.State
           old == Entry(sseNotifications, r, key)
           notification == IF old = <<>> THEN SSENotification("", now) ELSE old[1]
       IN  IF sessionToken = EmptyString
           THEN /\ watch' = [watch EXCEPT ![w] = [IdleWatch EXCEPT
                     !.pc = "done", !.replica = r, !.code = 400,
                     !.body = "No session_token specified", !.end = "error"]]
                /\ UNCHANGED sseNotifications
           ELSE IF v.err # ErrNone
           THEN /\ watch' = [watch EXCEPT ![w] = [IdleWatch EXCEPT
                     !.pc = "done", !.replica = r, !.code = 401,
                     !.body = IF v.err = ErrExpiredToken THEN "Session expired"
                              ELSE "Invalid session token",
                     !.end = "error"]]
                /\ UNCHANGED sseNotifications
           ELSE IF notification.Result # <<>>
           THEN /\ watch' = [watch EXCEPT ![w] = [IdleWatch EXCEPT
                     !.pc = "done", !.replica = r, !.state = key, !.code = 200,
                     !.events = sendFinalStatus(notification.Result[1]),
                     !.end = "final"]]
                /\ sseNotifications' =
                     [sseNotifications EXCEPT ![r][key] = <<notification>>]
           ELSE /\ sseNotifications' = [sseNotifications EXCEPT ![r][key] =
                     <<[notification EXCEPT !.Listeners = Append(@, w)]>>]
                /\ IF isFlusher
                   THEN watch' = [watch EXCEPT ![w] = [IdleWatch EXCEPT
                            !.pc = "waiting", !.replica = r, !.state = key,
                            !.code = 200]]
                   ELSE watch' = [watch EXCEPT ![w] = [IdleWatch EXCEPT
                            !.pc = "done", !.replica = r, !.state = key,
                            !.code = 500, !.body = "Streaming unsupported",
                            !.end = "error"]]
    /\ UNCHANGED <<now, chans, issued, callback, storeVars, refreshVars, call, visitors, tasks, objects>>

\* a variant that writes the event and stays in the loop
WatchDeliverAndGoOn(rec, status) == [rec EXCEPT !.events = Append(@, status)]

\* case status := <-listener: write the event and return
WatchDeliver(rec, status) ==
    [rec EXCEPT !.pc = "done", !.events = Append(@, status), !.end = "sent"]

WatchReceive(w) ==
    /\ watch[w].pc = "waiting"
    /\ chans[w] # <<>>
    /\ watch' = [watch EXCEPT ![w] = WatchDeliver(@, chans[w][1].msg)]
    /\ chans' = [chans EXCEPT ![w] = <<>>]
    /\ UNCHANGED <<now, sseNotifications, issued, callback, storeVars, refreshVars, call, visitors, tasks, objects>>

\* case <-ticker.C: a comment line, and the loop goes on
WatchKeepalive(w) ==
    /\ watch[w].pc = "waiting"
    /\ watch' = watch
    /\ UNCHANGED <<now, sseNotifications, chans, issued, callback, storeVars, refreshVars, call, visitors, tasks, objects>>

\* case <-r.Context().Done(): the client went away
WatchDisconnect(w) ==
    /\ watch[w].pc = "waiting"
    /\ watch' = [watch EXCEPT ![w].pc = "done", ![w].end = "disconnect"]
    /\ UNCHANGED <<now, sseNotifications, chans, issued, callback, storeVars, refreshVars, call, visitors, tasks, objects>>

\* what the identity provider can answer to the code exchange and the
\* verification of the ID token
ProviderOutcomes ==
    {[kind |-> k, email |-> "", groups |-> <<>>, refreshToken |-> ""] :
        k \in {"exchange_failed", "no_id_token", "verify_failed", "claims_failed"}}
    \cup {[kind |-> "verified", email |-> "u@e", groups |-> g, refreshToken |-> "rt1"] :
            g \in GroupLists}
    \cup {[kind |-> "verified", email |-> "", groups |-> <<"admins">>,
           refreshToken |-> "rt1"]}

\* HandleCallback up to the code exchange (login.go:204-267)
CallbackBegin(c, r, state, errParam, code) ==
    /\ NextCallback(c)
    /\ LET rec == [IdleCallback EXCEPT !.pc = "done", !.replica = r, !.state = state]
           notification == Entry(sseNotifications, r, state)
           fail(status, httpCode, body) ==
               /\ callback' = [callback EXCEPT ![c] = [rec EXCEPT
                     !.code = httpCode, !.body = body, !.notified = <<status>>]]
               /\ sseNotifications' = notifyTable(sseNotifications, r, state, status)
               /\ chans' = notifyChans(chans, sseNotifications, r, state, status)
       IN  IF state = ""
           THEN /\ callback' = [callback EXCEPT ![c] = [rec EXCEPT
                     !.code = 400, !.body = "Missing state"]]
                /\ UNCHANGED <<sseNotifications, chans>>
           ELSE IF errParam # ""
           THEN fail(Failed(errParam \o ": "), 400, errParam)
           ELSE IF code = ""
           THEN fail(Failed("No authorization code returned"), 400, "No code returned")
           ELSE IF notification = <<>>
           THEN /\ callback' = [callback EXCEPT ![c] = [rec EXCEPT
                     !.code = 400, !.body = "Session not found or expired"]]
                /\ UNCHANGED <<sseNotifications, chans>>
           ELSE IF notification[1].Verifier = ""
           THEN fail(Failed("Invalid session"), 500, "Invalid session")
           ELSE /\ callback' = [callback EXCEPT ![c] = [rec EXCEPT
                     !.pc = "exchange", !.verifier = notification[1].Verifier]]
                /\ UNCHANGED <<sseNotifications, chans>>
    /\ UNCHANGED <<now, issued, watch, storeVars, refreshVars, call, visitors, tasks, objects>>

\* HandleCallback from the answer of the code exchange on (login.go:269-366)
CallbackFinish(c, outcome, mintOK) ==
    /\ callback[c].pc = "exchange"
    /\ LET r == callback[c].replica
           state == callback[c].state
           rec == [callback[c] EXCEPT !.pc = "done"]
           refreshToken == CreateRefreshToken(outcome.email, outcome.refreshToken,
                                              0, RefreshTokenTTL, now, CHOOSE n \in Nonces : TRUE)
           finish(status, new) ==
               /\ callback' = [callback EXCEPT ![c] = [new EXCEPT !.notified = <<status>>]]
               /\ sseNotifications' = notifyTable(sseNotifications, r, state, status)
               /\ chans' = notifyChans(chans, sseNotifications, r, state, status)
       IN  IF outcome.kind = "exchange_failed"
           THEN finish(Failed("Token exchange failed: provider error"),
                       [rec EXCEPT !.code = 500, !.body = "provider error"])
           ELSE IF outcome.kind = "no_id_token"
           THEN finish(Failed("No ID token returned"),
                       [rec EXCEPT !.code = 500, !.body = "No ID token"])
           ELSE IF outcome.kind = "verify_failed"
           THEN finish(Failed("ID token verification failed: verifier error"),
                       [rec EXCEPT !.code = 500, !.body = "verifier error"])
           ELSE IF outcome.kind = "claims_failed"
           THEN finish(Failed("Failed to extract claims"),
                       [rec EXCEPT !.code = 500, !.body = "Failed to extract claims"])
           ELSE IF Len(AllowedGroups) > 0
                   /\ ~isUserAuthorized(AllowedGroups, outcome.groups)
           THEN finish(Failed("User is not a member of allowed groups"),
                       [rec EXCEPT !.code = 403,
                                   !.body = "Forbidden: user not in allowed groups",
                                   !.email = outcome.email, !.groups = outcome.groups])
           ELSE IF ~mintOK
           THEN finish(Failed("Failed to create refresh token"),
                       [rec EXCEPT !.code = 500, !.body = "Internal error",
                                   !.email = outcome.email, !.groups = outcome.groups])
           ELSE finish(StatusResponse(TRUE, generateKubeconfig(outcome.email),
                                      refreshToken, ""),
                       [rec EXCEPT !.code = 200, !.body = "Authentication successful",
                                   !.minted = <<refreshToken>>,
                                   !.email = outcome.email, !.groups = outcome.groups])
    /\ UNCHANGED <<now, issued, watch, storeVars, refreshVars, call, visitors, tasks, objects>>

\* one tick of cleanupSSENotifications on replica r
cleanupSSENotifications(r) ==
    /\ sseNotifications' = [sseNotifications EXCEPT ![r] =
          [s \in States |->
              IF sseNotifications[r][s] # <<>>
                 /\ now - sseNotifications[r][s][1].CreatedAt > SSECleanupTTL
              THEN <<>> ELSE sseNotifications[r][s]]]
    /\ UNCHANGED <<now, chans, issued, watch, callback, storeVars, refreshVars, call, visitors, tasks, objects>>

Tick ==
    /\ now < MaxTime
    /\ now' = now + 1
    /\ UNCHANGED <<loginVars, storeVars, refreshVars, call, visitors, tasks, objects>>

(***************************************************************************)
(* pkg/session/client.go: the OAuthSession objects in the cluster, and the *)
(* watch streams the API server feeds.                                     *)
(***************************************************************************)
OAuthSessionStatus(ready, email, kubeconfig, refreshToken, error) ==
    [Ready |-> ready, Email |-> email, Kubeconfig |-> kubeconfig,
     RefreshToken |-> refreshToken, Error |-> error, CompletedAt |-> <<>>]

OAuthSession(state, verifier, createdAt) ==
    [State |-> state, Verifier |-> verifier, CreatedAt |-> createdAt,
     Status |-> OAuthSessionStatus(FALSE, "", EmptyString, EmptyString, "")]

\* the API server appends an event to every open watch stream
Publish(ev, type, object) ==
    [r \in Replicas |-> Append(ev[r], [Type |-> type, Object |-> object])]

QueuesHaveRoom == \A r \in Replicas : Len(events[r]) < MaxQueue

\* Client.Create
ClientCreate(state) ==
    /\ store[state] = <<>>
    /\ QueuesHaveRoom
    /\ LET session == OAuthSession(state, GenerateVerifier(state), now)
       IN  /\ store' = [store EXCEPT ![state] = <<session>>]
           /\ events' = Publish(events, "ADDED", session)
    /\ UNCHANGED <<now, loginVars, refreshVars, call, visitors, tasks, objects>>

\* the statuses a caller hands to Client.UpdateStatus
TerminalStatuses ==
    {OAuthSessionStatus(TRUE, "u@e", generateKubeconfig("u@e"),
        CreateRefreshToken("u@e", "rt1", 0, RefreshTokenTTL, 0, CHOOSE n \in Nonces : TRUE), ""),
     OAuthSessionStatus(FALSE, "", EmptyString, EmptyString, "access_denied: ")}

\* Client.UpdateStatus
ClientUpdateStatus(state, status) ==
    /\ store[state] # <<>>
    /\ QueuesHaveRoom
    /\ LET session == [store[state][1] EXCEPT !.Status =
               IF status.Ready THEN [status EXCEPT !.CompletedAt = <<now>>]
               ELSE status]
       IN  /\ store' = [store EXCEPT ![state] = <<session>>]
           /\ events' = Publish(events, "MODIFIED", session)
    /\ UNCHANGED <<now, loginVars, refreshVars, call, visitors, tasks, objects>>

\* The API server ends the stream of replica r; watchSessions sleeps, calls
\* Client.Watch again, and the new stream opens with an ADDED event for
\* every object that exists.
ClientWatch(r) ==
    /\ events' = [events EXCEPT ![r] =
          IF \E s \in States : store[s] # <<>>
          THEN LET s == CHOOSE x \in States : store[x] # <<>>
               IN  <<[Type |-> "ADDED", Object |-> store[s][1]]>>
          ELSE <<>>]
    /\ UNCHANGED <<now, loginVars, store, refreshVars, call, visitors, tasks, objects>>

(***************************************************************************)
(* pkg/handlers/login_crd.go: one event of the watch stream handled by     *)
(* watchSessions on replica r.  h.sseListeners[state] is the listener list *)
(* of the state's entry in the notification table.                         *)
(***************************************************************************)
sseListeners(tbl, r, state) ==
    IF Entry(tbl, r, state) = <<>> THEN <<>> ELSE Entry(tbl, r, state)[1].Listeners

\* a variant that passes over the Added events
watchSessionsModifiedOnly(r) ==
    /\ events[r] # <<>>
    /\ LET event == Head(events[r])
           session == event.Object
           listeners == sseListeners(sseNotifications, r, session.State)
           status == StatusResponse(session.Status.Ready, session.Status.Kubeconfig,
                                    session.Status.RefreshToken, session.Status.Error)
       IN  /\ events' = [events EXCEPT ![r] = Tail(@)]
           /\ IF /\ event.Type = "MODIFIED"
                 /\ session.Status.Ready \/ session.Status.Error # ""
              THEN chans' = [w \in DOMAIN chans |->
                      IF w \in Range(listeners)
                      THEN TrySend(chans[w], [msg |-> status, by |-> "watchSessions"])
                      ELSE chans[w]]
              ELSE UNCHANGED chans
    /\ UNCHANGED <<now, sseNotifications, issued, watch, callback, store, refreshVars, call, visitors, tasks, objects>>

watchSessions(r) ==
    /\ events[r] # <<>>
    /\ LET event == Head(events[r])
           session == event.Object
           listeners == sseListeners(sseNotifications, r, session.State)
           status == StatusResponse(session.Status.Ready, session.Status.Kubeconfig,
                                    session.Status.RefreshToken, session.Status.Error)
       IN  /\ events' = [events EXCEPT ![r] = Tail(@)]
           /\ IF /\ event.Type \in {"MODIFIED", "ADDED"}
                 /\ session.Status.Ready \/ session.Status.Error # ""
              THEN chans' = [w \in DOMAIN chans |->
                      IF w \in Range(listeners)
                      THEN TrySend(chans[w], [msg |-> status, by |-> "watchSessions"])
                      ELSE chans[w]]
              ELSE UNCHANGED chans
    /\ UNCHANGED <<now, sseNotifications, issued, watch, callback, store, refreshVars, call, visitors, tasks, objects>>

(***************************************************************************)
(* pkg/middleware and cmd/kauth-server/main.go: the chain every request    *)
(* passes.  One step of the clock is longer than the time a limiter needs  *)
(* to fill up (burst / rps).                                               *)
(***************************************************************************)
RateLimitBurst == 2

\* cfg.AllowedOrigins and the TLS files are set: every request has r.TLS
AllowedOrigins == <<"https://app.example">>
TLSConfigured == TRUE

IPs == {"10.0.0.1", "10.0.0.2"}
Ports == {"1000", "2000"}
ProxyIP == "10.0.0.2"

\* the requests of the model: clients connect from any address, and the
\* requests that carry a proxy header come from the proxy; X-Forwarded-For
\* is the list of its entries
Requests ==
    {req \in [remoteIP : IPs, remotePort : Ports,
              xRealIP : {"", "10.0.0.1"}, xForwardedFor : {<<>>},
              method : {"GET", "OPTIONS"},
              origin : {"", "https://app.example"}] :
        /\ req.xRealIP # "" => req.remoteIP = ProxyIP
        /\ req.remoteIP = ProxyIP => req.remotePort = "1000"
        /\ req.method = "OPTIONS" => req.origin # ""}

\* the key of a request in rl.visitors: a header value as it is, or
\* r.RemoteAddr, which is "IP:port"; a header of several entries is the
\* list of them
VisitorKey(req) ==
    IF req.xRealIP # "" THEN <<req.xRealIP>>
    ELSE IF req.xForwardedFor # <<>> THEN req.xForwardedFor
    ELSE <<req.remoteIP \o ":" \o req.remotePort>>

Keys == {VisitorKey(req) : req \in Requests}

\* rate.NewLimiter(rl.rate, rl.burst): a full bucket
NewLimiter(t) == [tokens |-> RateLimitBurst, last |-> t]

\* the tokens of a limiter at time t
TokensAt(limiter, t) ==
    IF t > limiter.last THEN RateLimitBurst ELSE limiter.tokens

\* getVisitor: the limiter of the key, made when there is none
getVisitor(tbl, key, t) == IF tbl[key] = <<>> THEN NewLimiter(t) ELSE tbl[key][1]

\* limiter.Allow()
Allow(limiter, t) == TokensAt(limiter, t) >= 1

AfterAllow(limiter, t) ==
    IF Allow(limiter, t)
    THEN [tokens |-> TokensAt(limiter, t) - 1, last |-> t]
    ELSE [tokens |-> TokensAt(limiter, t), last |-> t]

SecurityHeaderSet ==
    {<<"X-Frame-Options", "DENY">>,
     <<"X-Content-Type-Options", "nosniff">>,
     <<"X-XSS-Protection", "1; mode=block">>,
     <<"Content-Security-Policy", "frame-ancestors 'none'">>,
     <<"Referrer-Policy", "strict-origin-when-cross-origin">>,
     <<"Permissions-Policy", "geolocation=(), microphone=(), camera=()">>}

\* http.Error: the headers it sets itself
HttpError(headers, code) ==
    [code |-> code, reached |-> FALSE,
     headers |-> headers \cup {<<"Content-Type", "text/plain; charset=utf-8">>,
                               <<"X-Content-Type-Options", "nosniff">>}]

\* the route handlers behind the mux
Mux(req, headers) == [code |-> 200, reached |-> TRUE, headers |-> headers]

RequestLogger(req, headers) == Mux(req, headers)

SecurityHeaders(req, headers) == RequestLogger(req, headers \cup SecurityHeaderSet)

HSTS(req, headers) ==
    SecurityHeaders(req,
        IF TLSConfigured
        THEN headers \cup {<<"Strict-Transport-Security",
                              "max-age=31536000; includeSubDomains; preload">>}
        ELSE headers)

CORS(req, headers) ==
    LET allowed == \E i \in DOMAIN AllowedOrigins :
                       AllowedOrigins[i] = "*" \/ AllowedOrigins[i] = req.origin
        own == IF allowed
               THEN {<<"Access-Control-Allow-Origin",
                       IF req.origin = "" THEN "*" ELSE req.origin>>,
                     <<"Access-Control-Allow-Methods", "GET, POST, OPTIONS">>,
                     <<"Access-Control-Allow-Headers", "Content-Type, Authorization">>,
                     <<"Access-Control-Max-Age", "86400">>}
               ELSE {}
        next(h) == IF TLSConfigured THEN HSTS(req, h) ELSE SecurityHeaders(req, h)
    IN  IF req.method = "OPTIONS"
        THEN [code |-> 204, reached |-> FALSE, headers |-> headers \cup own]
        ELSE next(headers \cup own)

\* RateLimiter.Middleware, the outermost handler
Middleware(req) ==
    LET key == VisitorKey(req)
        limiter == getVisitor(visitors, key, now)
        next(h) == IF Len(AllowedOrigins) > 0 THEN CORS(req, h)
                   ELSE IF TLSConfigured THEN HSTS(req, h)
                   ELSE SecurityHeaders(req, h)
    IN  /\ visitors' = [visitors EXCEPT ![key] = <<AfterAllow(limiter, now)>>]
        /\ call' = <<[op |-> "ServeHTTP", req |-> req, at |-> now,
                      resp |-> IF Allow(limiter, now) THEN next({})
                               ELSE HttpError({}, 429)]>>
        /\ UNCHANGED <<now, loginVars, storeVars, refreshVars, tasks, objects>>

\* one tick of cleanupLoop
cleanupLoop ==
    /\ visitors' = [k \in Keys |-> <<>>]
    /\ UNCHANGED <<now, loginVars, storeVars, refreshVars, call, tasks, objects>>

(***************************************************************************)
(* The login flow on two replicas that share one cluster.                  *)
(***************************************************************************)
Init ==
    /\ now = 0
    /\ sseNotifications = [r \in Replicas |-> [s \in States |-> <<>>]]
    /\ chans = [w \in 1..MaxWatch |-> <<>>]
    /\ issued = [s \in States |-> <<>>]
    /\ watch = [w \in 1..MaxWatch |-> IdleWatch]
    /\ callback = [c \in 1..MaxCallback |-> IdleCallback]
    /\ store = [s \in States |-> <<>>]
    /\ events = [r \in Replicas |-> <<>>]
    /\ held = {}
    /\ refresh = <<>>
    /\ call = <<>>
    /\ visitors = [k \in Keys |-> <<>>]
    /\ tasks = IdleTasks
    /\ objects = {}

Next ==
    \/ Tick
    \/ \E s \in States : HandleStartLogin(FirstReplica, s)
    \/ \E w \in 1..MaxWatch, r \in Replicas, tok \in PresentedTokens, fl \in BOOLEAN :
          WatchBegin(w, r, tok, fl)
    \/ \E w \in 1..MaxWatch : WatchReceive(w)
    \/ \E w \in 1..MaxWatch : WatchKeepalive(w)
    \/ \E w \in 1..MaxWatch : WatchDisconnect(w)
    \/ \E c \in 1..MaxCallback, r \in Replicas, s \in States \cup {UnknownState, ""},
          e \in {"", "access_denied"}, code \in {"", "code"} :
          CallbackBegin(c, r, s, e, code)
    \/ \E c \in 1..MaxCallback, o \in ProviderOutcomes, m \in BOOLEAN :
          CallbackFinish(c, o, m)
    \/ \E r \in Replicas : cleanupSSENotifications(r)
    \/ \E s \in States : ClientCreate(s)
    \/ \E s \in States, st \in TerminalStatuses : ClientUpdateStatus(s, st)
    \/ \E r \in Replicas : ClientWatch(r)
    \/ \E r \in Replicas : watchSessions(r)

Spec == Init /\ [][Next]_vars

(***************************************************************************)
(* pkg/handlers/refresh.go: the refresh flow handler.                      *)
(***************************************************************************)
\* what the identity provider can answer to a refresh and the verification
\* of the new ID token
RefreshOutcomes ==
    {[kind |-> k, email |-> "", refreshToken |-> ""] :
        k \in {"refresh_failed", "no_id_token", "verify_failed", "claims_failed"}}
    \cup {[kind |-> "verified", email |-> e, refreshToken |-> u] :
            e \in Emails, u \in UpstreamTokens}

\* the refresh envelopes a client can have: the ones the login flow minted
\* and the ones /refresh returned
IssuedRefreshTokens ==
    held \cup UNION {Range(callback[c].minted) : c \in 1..MaxCallback}

\* what a client can put in the refresh_token field
PresentedRefreshTokens ==
    {EmptyString, Garbage} \cup IssuedRefreshTokens
    \cup {Tamper(tok) : tok \in IssuedRefreshTokens}

\* the requests a client can make: another method, a body that does not
\* decode, or a body with a refresh_token
RefreshRequests ==
    {[method |-> "GET", bodyOK |-> TRUE, refresh_token |-> EmptyString],
     [method |-> "POST", bodyOK |-> FALSE, refresh_token |-> EmptyString]}
    \cup {[method |-> "POST", bodyOK |-> TRUE, refresh_token |-> tok] :
            tok \in PresentedRefreshTokens}

RefreshAnswer(method, presented, code, body) ==
    [method |-> method, presented |-> presented, code |-> code, body |-> body,
     issued |-> <<>>, claimsEmail |-> "", upstream |-> "",
     providerCalled |-> FALSE, claimsParsed |-> FALSE,
     bodyOK |-> TRUE, outcomeKind |-> ""]

\* a variant that lets every user through
sameUserAlways(claimsEmail, refreshToken) == TRUE

\* the subject check of HandleRefresh (refresh.go:126)
sameUser(claimsEmail, refreshToken) == claimsEmail = refreshToken.UserEmail

\* a variant that keeps the counter of the presented envelope
rotateSameCounter(refreshToken, email, upstream, t, nonce) ==
    CreateRefreshToken(email, upstream, refreshToken.RotationCounter,
                       RefreshTokenTTL, t, nonce)

\* the rotated envelope HandleRefresh mints (refresh.go:132-137)
rotate(refreshToken, email, upstream, t, nonce) ==
    CreateRefreshToken(email, upstream, refreshToken.RotationCounter + 1,
                       RefreshTokenTTL, t, nonce)

HandleRefresh(req, outcome, mintOK) ==
    /\ Cardinality(held) < MaxRotation
    /\ LET method == req.method
           bodyOK == req.bodyOK
           presented == req.refresh_token
           v == ValidateRefreshToken(presented, RotationWindow, now)
           refreshToken == v.refresh
           newRefreshToken == rotate(refreshToken, outcome.email, outcome.refreshToken,
                                     now, CHOOSE n \in Nonces : TRUE)
           answer(code, body) ==
               /\ refresh' = <<[RefreshAnswer(method, presented, code, body) EXCEPT
                        !.bodyOK = bodyOK]>>
               /\ UNCHANGED held
           \* an answer given after h.provider...TokenSource(ctx, oldToken).Token()
           answerAfterProvider(code, body, parsed) ==
               /\ refresh' = <<[RefreshAnswer(method, presented, code, body) EXCEPT
                        !.providerCalled = TRUE,
                        !.outcomeKind = outcome.kind,
                        !.claimsParsed = parsed,
                        !.claimsEmail = IF parsed THEN outcome.email ELSE ""]>>
               /\ UNCHANGED held
       IN  IF method # "POST" THEN answer(405, "Method not allowed")
           ELSE IF ~bodyOK THEN answer(400, "Invalid request body")
           ELSE IF presented = EmptyString THEN answer(400, "Missing refresh_token")
           ELSE IF v.err = ErrExpiredToken THEN answer(401, "Refresh token expired")
           ELSE IF v.err # ErrNone THEN answer(401, "Invalid refresh token")
           ELSE IF outcome.kind = "refresh_failed"
           THEN answerAfterProvider(401, "Failed to refresh token: provider error", FALSE)
           ELSE IF outcome.kind = "no_id_token"
           THEN answerAfterProvider(500, "No ID token in refresh response", FALSE)
           ELSE IF outcome.kind = "verify_failed"
           THEN answerAfterProvider(500, "ID token verification failed: verifier error",
                                    FALSE)
           ELSE IF outcome.kind = "claims_failed"
           THEN answerAfterProvider(500, "Failed to extract claims", FALSE)
           ELSE IF ~sameUser(outcome.email, refreshToken)
           THEN answerAfterProvider(401, "Token user mismatch", TRUE)
           ELSE IF ~mintOK
           THEN answerAfterProvider(500, "Failed to create new refresh token", TRUE)
           ELSE /\ refresh' = <<[RefreshAnswer(method, presented, 200, "") EXCEPT
                        !.issued = <<newRefreshToken>>,
                        !.claimsEmail = outcome.email,
                        !.upstream = outcome.refreshToken,
                        !.providerCalled = TRUE,
                        !.outcomeKind = outcome.kind,
                        !.claimsParsed = TRUE]>>
                /\ held' = held \cup {newRefreshToken}
    /\ UNCHANGED <<now, loginVars, storeVars, call, visitors, tasks, objects>>

(***************************************************************************)
(* The refresh flow: one login mints the first envelope, /refresh rotates.  *)
(***************************************************************************)
NextRefresh ==
    \/ Tick
    \/ \E s \in States : HandleStartLogin(FirstReplica, s)
    \/ \E s \in States, code \in {"", "code"} :
          CallbackBegin(1, FirstReplica, s, "", code)
    \/ \E o \in ProviderOutcomes, m \in BOOLEAN : CallbackFinish(1, o, m)
    \/ \E req \in RefreshRequests, o \in RefreshOutcomes, m \in BOOLEAN :
          HandleRefresh(req, o, m)

SpecRefresh == Init /\ [][NextRefresh]_vars

(***************************************************************************)
(* The token manager on its own: envelopes are created and validated at    *)
(* any time of the clock, by this manager and by managers with other keys. *)
(***************************************************************************)
TTLs == {-1, 0, 1}
KeyPairs == {<<SigningKey, EncryptionKey>>, <<OtherKey, EncryptionKey>>,
             <<SigningKey, OtherKey>>}
BytesParts == {"mac", "nonce", "ciphertext"}

\* what a manager with the keys given makes of a payload: encrypt, sign, encode
Seal(signingKey, encryptionKey, nonce, data) ==
    Base64Encode(sign(signingKey, encrypt(encryptionKey, nonce, data)))

\* signed[i] ^= 1 on the decoded bytes, i an index into the part named
FlipBit(token, part) ==
    [enc |-> "b64",
     bytes |->
        IF part = "mac"
        THEN [token.bytes EXCEPT !.mac = [flipped |-> token.bytes.mac]]
        ELSE IF part = "nonce"
        THEN [token.bytes EXCEPT !.data.nonce = "flipped"]
        ELSE [token.bytes EXCEPT !.data.plain = [flipped |-> token.bytes.data.plain]]]

SessionArgs ==
    [state : States \cup {""}, verifier : {GenerateVerifier(s) : s \in States},
     ttl : TTLs, at : 0..MaxTime, nonce : Nonces]

RefreshArgs ==
    [userEmail : {"u@e"}, oidcRefreshToken : {"rt1"}, rotationCounter : {0, 1},
     ttl : TTLs, at : 0..MaxTime, nonce : Nonces]

SessionTokenOf(a) == CreateSessionToken(a.state, a.verifier, a.ttl, a.at, a.nonce)

RefreshTokenOf(a) ==
    CreateRefreshToken(a.userEmail, a.oidcRefreshToken, a.rotationCounter,
                       a.ttl, a.at, a.nonce)

SessionEnvelopes == {SessionTokenOf(a) : a \in SessionArgs}
RefreshEnvelopes == {RefreshTokenOf(a) : a \in RefreshArgs}

\* envelopes of managers with another signing or another encryption key
ForeignEnvelopes ==
    {Seal(k[1], k[2], tok.bytes.data.nonce, tok.bytes.data.plain) :
        k \in KeyPairs \ {<<SigningKey, EncryptionKey>>},
        tok \in SessionEnvelopes \cup RefreshEnvelopes}

\* signed by this manager over bytes that are no ciphertext of a payload
MalformedEnvelopes ==
    {Seal(SigningKey, EncryptionKey, n, NotJson) : n \in Nonces}
    \cup {Base64Encode(sign(SigningKey, [short |-> "abc"]))}

TamperedEnvelopes ==
    {FlipBit(tok, part) : tok \in SessionEnvelopes \cup RefreshEnvelopes,
                          part \in BytesParts}

Envelopes ==
    SessionEnvelopes \cup RefreshEnvelopes \cup ForeignEnvelopes
    \cup MalformedEnvelopes \cup TamperedEnvelopes \cup {EmptyString, Garbage}

CallCreateSessionToken(a) ==
    /\ a.at = now
    /\ call' = <<[op |-> "CreateSessionToken", args |-> a, at |-> now,
                  token |-> SessionTokenOf(a)]>>
    /\ UNCHANGED <<now, loginVars, storeVars, refreshVars, visitors, tasks, objects>>

CallCreateRefreshToken(a) ==
    /\ a.at = now
    /\ call' = <<[op |-> "CreateRefreshToken", args |-> a, at |-> now,
                  token |-> RefreshTokenOf(a)]>>
    /\ UNCHANGED <<now, loginVars, storeVars, refreshVars, visitors, tasks, objects>>

CallValidateSessionToken(token) ==
    /\ call' = <<[op |-> "ValidateSessionToken", token |-> token, at |-> now,
                  result |-> ValidateSessionToken(token, now)]>>
    /\ UNCHANGED <<now, loginVars, storeVars, refreshVars, visitors, tasks, objects>>

CallValidateRefreshToken(token, allowedRotationWindow) ==
    /\ call' = <<[op |-> "ValidateRefreshToken", token |-> token, at |-> now,
                  window |-> allowedRotationWindow,
                  result |-> ValidateRefreshToken(token, allowedRotationWindow, now)]>>
    /\ UNCHANGED <<now, loginVars, storeVars, refreshVars, visitors, tasks, objects>>

KeySizes == -1..2
RandomBytes == {0, 255}

\* make([]byte, size) panics on a negative size; rand.Read fills the key
\* or fails
GenerateRandomKey(size, bytes, readOK) ==
    IF size < 0 THEN [outcome |-> "panic", key |-> <<>>, err |-> ErrNone]
    ELSE IF ~readOK THEN [outcome |-> "returned", key |-> <<>>, err |-> "rand.Read failed"]
    ELSE [outcome |-> "returned", key |-> bytes, err |-> ErrNone]

CallGenerateRandomKey(size, readOK) ==
    /\ \E bytes \in [1..(IF size < 0 THEN 0 ELSE size) -> RandomBytes] :
          call' = <<[op |-> "GenerateRandomKey", size |-> size, at |-> now,
                     result |-> GenerateRandomKey(size, bytes, readOK)]>>
    /\ UNCHANGED <<now, loginVars, storeVars, refreshVars, visitors, tasks, objects>>

NextToken ==
    \/ Tick
    \/ \E size \in KeySizes, ok \in BOOLEAN : CallGenerateRandomKey(size, ok)
    \/ \E a \in SessionArgs : CallCreateSessionToken(a)
    \/ \E a \in RefreshArgs : CallCreateRefreshToken(a)
    \/ \E tok \in Envelopes : CallValidateSessionToken(tok)
    \/ \E tok \in Envelopes, win \in {0, RotationWindow} :
          CallValidateRefreshToken(tok, win)

SpecToken == Init /\ [][NextToken]_vars

(***************************************************************************)
(* pkg/session/client.go and pkg/validation: the name of the OAuthSession  *)
(* object of a state.  A string is a sequence of characters here.          *)
(***************************************************************************)
MaxTail == 2        \* characters of free choice at the end of an input state
HeadLengths == {0, 1, 55, 56, 57, 62, 63, 100}

ResourceNameLimit == 63
SanitizedLimit == 57

LowerCase == {"a", "b", "d", "e", "f", "h", "l", "o", "t", "u"}
UpperCase == {"A"}
Digits == {"7"}
Alphabet == {"a", "b", "A", "7", "-", ".", "_"}

Default == <<"d", "e", "f", "a", "u", "l", "t">>
Prefix == <<"o", "a", "u", "t", "h", "-">>

\* ch - 'A' + 'a'
ToLower(ch) == CASE ch = "A" -> "a"

RECURSIVE TrimLeft(_, _)
TrimLeft(s, cutset) ==
    IF s # <<>> /\ Head(s) \in cutset THEN TrimLeft(Tail(s), cutset) ELSE s

RECURSIVE TrimRight(_, _)
TrimRight(s, cutset) ==
    IF s # <<>> /\ s[Len(s)] \in cutset
    THEN TrimRight(SubSeq(s, 1, Len(s) - 1), cutset) ELSE s

SanitizeToResourceName(input) ==
    IF input = <<>> THEN Default
    ELSE
        LET mapped == [i \in 1..Len(input) |->
                          IF input[i] \in LowerCase \cup Digits THEN input[i]
                          ELSE IF input[i] \in UpperCase THEN ToLower(input[i])
                          ELSE "-"]
            trimmed == TrimRight(TrimLeft(mapped, {"-", "."}), {"-", "."})
            name == IF Len(trimmed) > ResourceNameLimit
                    THEN TrimRight(SubSeq(trimmed, 1, ResourceNameLimit), {"-", "."})
                    ELSE trimmed
        IN  IF name = <<>> THEN Default ELSE name

sanitizeName(state) ==
    LET sanitized == SanitizeToResourceName(state)
    IN  Prefix \o (IF Len(sanitized) + Len(Prefix) > ResourceNameLimit
                   THEN SubSeq(sanitized, 1, SanitizedLimit)
                   ELSE sanitized)

\* strings.TrimPrefix
TrimPrefix(s, prefix) ==
    IF Len(s) >= Len(prefix) /\ SubSeq(s, 1, Len(prefix)) = prefix
    THEN SubSeq(s, Len(prefix) + 1, Len(s)) ELSE s

Repeat(ch, n) == [i \in 1..n |-> ch]

Tails == UNION {[1..n -> Alphabet] : n \in 0..MaxTail}

\* the states the name is derived from: a run of one letter, then any characters
StateInputs == {Repeat("a", n) \o tail : n \in HeadLengths, tail \in Tails}

CallSanitizeName(state) ==
    /\ call' = <<[op |-> "sanitizeName", state |-> state,
                  result |-> sanitizeName(state)]>>
    /\ UNCHANGED <<now, loginVars, storeVars, refreshVars, visitors, tasks, objects>>

NextSanitize == \E state \in StateInputs : CallSanitizeName(state)

SpecSanitize == Init /\ [][NextSanitize]_vars

(***************************************************************************)
(* The session store on its own: objects are created, completed and swept. *)
(* Here one step of the clock is the 30 s between two sweeps, so the 60 s  *)
(* an object is kept are two steps.                                        *)
(***************************************************************************)
MaxStoreTime == 4   \* the clock of the store stops after this many steps
CleanupTTL == 2

TickStore ==
    /\ now < MaxStoreTime
    /\ now' = now + 1
    /\ UNCHANGED <<loginVars, storeVars, refreshVars, call, visitors, tasks, objects>>

\* a variant that spares the objects with a terminal status
SweptPendingOnly(st, ttl, t) ==
    {s \in States : /\ st[s] # <<>> /\ st[s][1].CreatedAt < t - ttl
                    /\ ~st[s][1].Status.Ready /\ st[s][1].Status.Error = ""}

\* the objects a sweep at time t deletes: session.Spec.CreatedAt.Time.Before(cutoff)
Swept(st, ttl, t) ==
    {s \in States : st[s] # <<>> /\ st[s][1].CreatedAt < t - ttl}

\* Client.CleanupOldSessions: list the objects with the label every object
\* of Client.Create carries, delete the old ones
CleanupOldSessions(ttl) ==
    /\ QueuesHaveRoom
    /\ LET old == Swept(store, ttl, now)
       IN  /\ store' = [s \in States |-> IF s \in old THEN <<>> ELSE store[s]]
           /\ events' = IF old = {} THEN events
                        ELSE LET s == CHOOSE x \in old : TRUE
                             IN  Publish(events, "DELETED", store[s][1])
           /\ call' = <<[op |-> "CleanupOldSessions", ttl |-> ttl, at |-> now,
                         deleted |-> {store[s][1] : s \in old}]>>
    /\ UNCHANGED <<now, loginVars, refreshVars, visitors, objects>>

\* one tick of cleanupSessions
cleanupSessions == CleanupOldSessions(CleanupTTL) /\ UNCHANGED tasks

NextStore ==
    \/ TickStore
    \/ \E s \in States : ClientCreate(s)
    \/ \E s \in States, st \in TerminalStatuses : ClientUpdateStatus(s, st)
    \/ cleanupSessions
    \/ \E r \in Replicas : ClientWatch(r)
    \/ \E r \in Replicas : watchSessions(r)

SpecStore == Init /\ [][NextStore]_vars

(***************************************************************************)
(* The login flow with its scheduling: a goroutine that can take a step    *)
(* takes it in the end.  This holds for the select loop of HandleWatch     *)
(* when its channel holds a status and for the loop of watchSessions when  *)
(* its stream holds an event.  Clients, the clock and the identity         *)
(* provider are under no obligation.                                       *)
(***************************************************************************)
Fairness ==
    /\ \A w \in 1..MaxWatch : WF_vars(WatchReceive(w))
    /\ \A r \in Replicas : WF_vars(watchSessions(r))

SpecLive == Spec /\ Fairness

(***************************************************************************)
(* Logins whose callback dies in the code exchange: a callback that the   *)
(* provider answers with a code reaches the exchange and the replica       *)
(* crashes there (there is no CallbackFinish), so it records no outcome;   *)
(* a callback that carries a provider error is answered at once.  The      *)
(* sweeps of the store and of the table go on.  One step of the clock is   *)
(* the 30 s between two sweeps.                                            *)
(***************************************************************************)
NextCrash ==
    \/ TickStore
    \/ \E s \in States : HandleStartLogin(FirstReplica, s)
    \/ \E s \in States : ClientCreate(s)
    \/ \E w \in 1..MaxWatch, r \in Replicas, tok \in PresentedTokens :
          WatchBegin(w, r, tok, TRUE)
    \/ \E w \in 1..MaxWatch : WatchReceive(w)
    \/ \E w \in 1..MaxWatch : WatchKeepalive(w)
    \/ \E w \in 1..MaxWatch : WatchDisconnect(w)
    \/ \E c \in 1..MaxCallback, s \in States, e \in {"", "access_denied"} :
          CallbackBegin(c, FirstReplica, s, e, "code")
    \/ \E r \in Replicas : cleanupSSENotifications(r)
    \/ cleanupSessions
    \/ \E r \in Replicas : ClientWatch(r)
    \/ \E r \in Replicas : watchSessions(r)

SpecCrash ==
    Init /\ [][NextCrash]_vars /\ Fairness /\ WF_vars(cleanupSessions)

(***************************************************************************)
(* The key RateLimiter.Middleware takes from a request, for requests with  *)
(* any proxy headers, X-Forwarded-For of several entries included.         *)
(***************************************************************************)
ForwardedFor ==
    {<<>>} \cup {<<a>> : a \in IPs} \cup {<<a, b>> : a \in IPs, b \in IPs}
        \cup {<<a, b, c>> : a \in IPs, b \in IPs, c \in IPs}

KeyRequests ==
    [remoteIP : IPs, remotePort : Ports,
     xRealIP : {""} \cup IPs, xForwardedFor : ForwardedFor,
     method : {"GET"}, origin : {""}]

CallVisitorKey(req) ==
    /\ call' = <<[op |-> "VisitorKey", req |-> req, key |-> VisitorKey(req)]>>
    /\ UNCHANGED <<now, loginVars, storeVars, refreshVars, visitors, tasks, objects>>

NextVisitorKey == \E req \in KeyRequests : CallVisitorKey(req)

SpecVisitorKey == Init /\ [][NextVisitorKey]_vars

(***************************************************************************)
(* pkg/session/client.go with the names the API server files the objects   *)
(* under: every operation reaches its object through sanitizeName(state).  *)
(***************************************************************************)
\* states a login can carry: letters of both cases, '-' and '_'
KeyStates ==
    {<<"a", "b">>, <<"A", "b">>, <<"a", "-", "b">>, <<"a", "_", "b">>, <<"b">>}

\* the object the API server holds under a name (none: the empty set)
Named(name) == {o \in objects : o.Name = name}

\* Client.Create: the API server refuses a name that is taken
Create(state) ==
    LET name == sanitizeName(state)
        session == [Name |-> name, State |-> state, Verifier |-> <<"verifier", state>>,
                    CreatedAt |-> now,
                    Status |-> OAuthSessionStatus(FALSE, "", EmptyString, EmptyString, "")]
    IN  /\ IF Named(name) # {}
           THEN /\ UNCHANGED objects
                /\ call' = <<[op |-> "Create", state |-> state,
                              err |-> "failed to create OAuthSession", session |-> <<>>]>>
           ELSE /\ objects' = objects \cup {session}
                /\ call' = <<[op |-> "Create", state |-> state, err |-> "",
                              session |-> <<session>>]>>
        /\ UNCHANGED <<now, loginVars, storeVars, refreshVars, visitors, tasks>>

\* Client.Get
Get(state) ==
    LET found == Named(sanitizeName(state))
    IN  /\ call' = IF found = {}
                   THEN <<[op |-> "Get", state |-> state, err |-> "not found",
                           session |-> <<>>]>>
                   ELSE <<[op |-> "Get", state |-> state, err |-> "",
                           session |-> <<CHOOSE o \in found : TRUE>>]>>
        /\ UNCHANGED <<now, loginVars, storeVars, refreshVars, visitors, tasks, objects>>

\* Client.UpdateStatus: Get, then the status of the object that came back
UpdateStatus(state, status) ==
    LET found == Named(sanitizeName(state))
    IN  /\ IF found = {}
           THEN /\ UNCHANGED objects
                /\ call' = <<[op |-> "UpdateStatus", state |-> state,
                              err |-> "failed to get session", session |-> <<>>]>>
           ELSE LET old == CHOOSE o \in found : TRUE
                    session == [old EXCEPT !.Status =
                                   IF status.Ready
                                   THEN [status EXCEPT !.CompletedAt = <<now>>]
                                   ELSE status]
                IN  /\ objects' = (objects \ {old}) \cup {session}
                    /\ call' = <<[op |-> "UpdateStatus", state |-> state, err |-> "",
                                  session |-> <<session>>]>>
        /\ UNCHANGED <<now, loginVars, storeVars, refreshVars, visitors, tasks>>

\* Client.Delete
Delete(state) ==
    LET found == Named(sanitizeName(state))
    IN  /\ objects' = objects \ found
        /\ call' = <<[op |-> "Delete", state |-> state,
                      err |-> IF found = {} THEN "failed to delete OAuthSession" ELSE "",
                      session |-> <<>>]>>
        /\ UNCHANGED <<now, loginVars, storeVars, refreshVars, visitors, tasks>>

NextKeys ==
    \/ \E state \in KeyStates : Create(state)
    \/ \E state \in KeyStates : Get(state)
    \/ \E state \in KeyStates, status \in TerminalStatuses : UpdateStatus(state, status)
    \/ \E state \in KeyStates : Delete(state)

SpecKeys == Init /\ [][NextKeys]_vars

(***************************************************************************)
(* pkg/handlers/login_crd.go, statement by statement: the loop of          *)
(* watchSessions with its lock, snapshot and sends as steps of their own,  *)
(* the loop of cleanupSessions with a sweep that can fail, and a request   *)
(* to stop the broker.  tasks.notifier[r].pc says where watchSessions of   *)
(* replica r stands, tasks.mutex[r] who holds h.sseMutex of the replica,   *)
(* tasks.ticks counts the ticks of the cleanup ticker modulo 2.  The steps *)
(* are followed on the first replica; the other replicas run the loop body *)
(* as one step.                                                            *)
(***************************************************************************)
MutexFree(r) == tasks.mutex[r] = ""

\* a variant that gives up when the watch cannot be opened
watchSessionsOpenOrReturn(r, ok) ==
    /\ tasks.notifier[r].pc = "open"
    /\ IF ok
       THEN /\ events' = [events EXCEPT ![r] =
                  IF \E s \in States : store[s] # <<>>
                  THEN LET s == CHOOSE x \in States : store[x] # <<>>
                       IN  <<[Type |-> "ADDED", Object |-> store[s][1]]>>
                  ELSE <<>>]
            /\ tasks' = [tasks EXCEPT !.notifier[r].pc = "recv"]
       ELSE /\ tasks' = [tasks EXCEPT !.notifier[r].pc = "returned"]
            /\ UNCHANGED events
    /\ UNCHANGED <<now, loginVars, store, refreshVars, call, visitors, objects>>

\* watcher, err := h.sessionClient.Watch(ctx): a new stream, which opens with
\* an Added event for every object that exists, or an error, a sleep of 5 s
\* and the next turn of the loop
watchSessionsOpen(r, ok) ==
    /\ tasks.notifier[r].pc = "open"
    /\ IF ok
       THEN /\ events' = [events EXCEPT ![r] =
                  IF \E s \in States : store[s] # <<>>
                  THEN LET s == CHOOSE x \in States : store[x] # <<>>
                       IN  <<[Type |-> "ADDED", Object |-> store[s][1]]>>
                  ELSE <<>>]
            /\ tasks' = [tasks EXCEPT !.notifier[r].pc = "recv"]
       ELSE /\ tasks' = [tasks EXCEPT !.notifier[r].pc = "sleep"]
            /\ UNCHANGED events
    /\ UNCHANGED <<now, loginVars, store, refreshVars, call, visitors, objects>>

\* the API server closes the stream: the range loop ends once the events
\* that were delivered are handled, and the task sleeps 5 s
watchSessionsClosed(r) ==
    /\ tasks.notifier[r].pc = "recv"
    /\ events[r] = <<>>
    /\ tasks' = [tasks EXCEPT !.notifier[r].pc = "sleep"]
    /\ UNCHANGED <<now, loginVars, storeVars, refreshVars, call, visitors, objects>>

\* time.Sleep(5 * time.Second) returns
watchSessionsBackoff(r) ==
    /\ tasks.notifier[r].pc = "sleep"
    /\ tasks' = [tasks EXCEPT !.notifier[r].pc = "open"]
    /\ UNCHANGED <<now, loginVars, storeVars, refreshVars, call, visitors, objects>>

\* for event := range watcher.ResultChan(): the next event; one that is
\* Added or Modified with a terminal status goes on to the lock
watchSessionsNext(r) ==
    /\ tasks.notifier[r].pc = "recv"
    /\ events[r] # <<>>
    /\ LET event == Head(events[r])
           session == event.Object
       IN  /\ events' = [events EXCEPT ![r] = Tail(@)]
           /\ IF /\ event.Type \in {"MODIFIED", "ADDED"}
                 /\ session.Status.Ready \/ session.Status.Error # ""
              THEN tasks' = [tasks EXCEPT !.notifier[r].pc = "lock",
                                          !.notifier[r].event = <<event>>]
              ELSE UNCHANGED tasks
    /\ UNCHANGED <<now, loginVars, store, refreshVars, call, visitors, objects>>

\* h.sseMutex.Lock()
watchSessionsLock(r) ==
    /\ tasks.notifier[r].pc = "lock"
    /\ MutexFree(r)
    /\ tasks' = [tasks EXCEPT !.notifier[r].pc = "locked", !.mutex[r] = "watchSessions"]
    /\ UNCHANGED <<now, loginVars, storeVars, refreshVars, call, visitors, objects>>

\* a variant that keeps the mutex until the sends are done
watchSessionsSnapshotLocked(r) ==
    /\ tasks.notifier[r].pc = "locked"
    /\ LET listeners == sseListeners(sseNotifications, r,
                                     tasks.notifier[r].event[1].Object.State)
       IN  tasks' = IF Len(listeners) > 0
                    THEN [tasks EXCEPT !.notifier[r].pc = "send",
                                       !.notifier[r].listeners = listeners]
                    ELSE [tasks EXCEPT !.notifier[r].pc = "recv",
                                       !.notifier[r].event = <<>>,
                                       !.mutex[r] = ""]
    /\ UNCHANGED <<now, loginVars, storeVars, refreshVars, call, visitors, objects>>

\* listeners := h.sseListeners[state]; h.sseMutex.Unlock()
watchSessionsSnapshot(r) ==
    /\ tasks.notifier[r].pc = "locked"
    /\ LET listeners == sseListeners(sseNotifications, r,
                                     tasks.notifier[r].event[1].Object.State)
       IN  tasks' = IF Len(listeners) > 0
                    THEN [tasks EXCEPT !.notifier[r].pc = "send",
                                       !.notifier[r].listeners = listeners,
                                       !.mutex[r] = ""]
                    ELSE [tasks EXCEPT !.notifier[r].pc = "recv",
                                       !.notifier[r].event = <<>>,
                                       !.mutex[r] = ""]
    /\ UNCHANGED <<now, loginVars, storeVars, refreshVars, call, visitors, objects>>

\* for _, listener := range listeners { select { case listener <- status: default: } }
watchSessionsSend(r) ==
    /\ tasks.notifier[r].pc = "send"
    /\ LET session == tasks.notifier[r].event[1].Object
           status == StatusResponse(session.Status.Ready, session.Status.Kubeconfig,
                                    session.Status.RefreshToken, session.Status.Error)
       IN  chans' = [w \in DOMAIN chans |->
               IF w \in Range(tasks.notifier[r].listeners)
               THEN TrySend(chans[w], [msg |-> status, by |-> "watchSessions"])
               ELSE chans[w]]
    /\ tasks' = [tasks EXCEPT !.notifier[r].pc = "recv",
                              !.notifier[r].event = <<>>,
                              !.notifier[r].listeners = <<>>,
                              !.mutex[r] = ""]
    /\ UNCHANGED <<now, sseNotifications, issued, watch, callback, storeVars, refreshVars, call, visitors, objects>>

\* for range ticker.C: one sweep, which deletes the old objects or fails to
\* list them; the error is logged and the loop goes on
cleanupSessionsTick(ok) ==
    /\ tasks' = [tasks EXCEPT !.ticks = (@ + 1) % 2]
    /\ IF ok
       THEN CleanupOldSessions(CleanupTTL)
       ELSE /\ call' = <<[op |-> "CleanupOldSessions", ttl |-> CleanupTTL, at |-> now,
                          deleted |-> {}, err |-> "failed to list sessions"]>>
            /\ UNCHANGED <<now, loginVars, storeVars, refreshVars, visitors, objects>>

\* The broker is asked to stop.  NewLoginHandler takes no context and keeps
\* no stop channel, and the tasks make their own context.Background(): the
\* request changes nothing they read.
BrokerStop ==
    /\ ~tasks.stop
    /\ tasks' = [tasks EXCEPT !.stop = TRUE]
    /\ UNCHANGED <<now, loginVars, storeVars, refreshVars, call, visitors, objects>>

NextTasks ==
    \/ Tick
    \/ \E s \in States : MutexFree(FirstReplica) /\ HandleStartLogin(FirstReplica, s)
    \/ \E w \in 1..MaxWatch, tok \in PresentedTokens :
          MutexFree(FirstReplica) /\ WatchBegin(w, FirstReplica, tok, TRUE)
    \/ \E w \in 1..MaxWatch : WatchReceive(w)
    \/ \E w \in 1..MaxWatch : WatchKeepalive(w)
    \/ \E w \in 1..MaxWatch : WatchDisconnect(w)
    \/ \E s \in States : ClientCreate(s)
    \/ \E s \in States, st \in TerminalStatuses : ClientUpdateStatus(s, st)
    \/ \E ok \in BOOLEAN : watchSessionsOpen(FirstReplica, ok)
    \/ watchSessionsClosed(FirstReplica)
    \/ watchSessionsBackoff(FirstReplica)
    \/ watchSessionsNext(FirstReplica)
    \/ watchSessionsLock(FirstReplica)
    \/ watchSessionsSnapshot(FirstReplica)
    \/ watchSessionsSend(FirstReplica)
    \/ \E r \in Replicas \ {FirstReplica} : watchSessions(r)
    \/ \E ok \in BOOLEAN : cleanupSessionsTick(ok)
    \/ BrokerStop

\* The goroutines are scheduled, a sleep ends, a call to the API server
\* returns, and the ticker fires.
FairnessTasks ==
    /\ \A w \in 1..MaxWatch : WF_vars(WatchReceive(w))
    /\ WF_vars(\E ok \in BOOLEAN : watchSessionsOpen(FirstReplica, ok))
    /\ WF_vars(watchSessionsBackoff(FirstReplica))
    /\ WF_vars(watchSessionsNext(FirstReplica))
    /\ WF_vars(watchSessionsLock(FirstReplica))
    /\ WF_vars(watchSessionsSnapshot(FirstReplica))
    /\ WF_vars(watchSessionsSend(FirstReplica))
    /\ \A r \in Replicas \ {FirstReplica} : WF_vars(watchSessions(r))
    /\ WF_vars(\E ok \in BOOLEAN : cleanupSessionsTick(ok))

SpecTasks == Init /\ [][NextTasks]_vars /\ FairnessTasks

(***************************************************************************)
(* The middleware chain on its own.                                        *)
(***************************************************************************)
NextPipeline ==
    \/ Tick
    \/ \E req \in Requests : Middleware(req)
    \/ cleanupLoop

SpecPipeline == Init /\ [][NextPipeline]_vars

(***************************************************************************)
(* Properties of the login flow.                                           *)
(***************************************************************************)
\* a status is terminal when it is Ready or carries an error
IsTerminal(status) == status.Ready \/ status.Error # ""

\* the outcome the OAuthSession object of a state holds, as /watch reports it
RecordOutcome(state) ==
    IF state \in States /\ store[state] # <<>> /\ IsTerminal(store[state][1].Status)
    THEN <<StatusResponse(store[state][1].Status.Ready, store[state][1].Status.Kubeconfig,
                          store[state][1].Status.RefreshToken, store[state][1].Status.Error)>>
    ELSE <<>>

\* the outcomes some replica's notification table holds for a state
TableOutcomes(state) ==
    {Entry(sseNotifications, r, state)[1].Result[1] :
        r \in {x \in Replicas : /\ Entry(sseNotifications, x, state) # <<>>
                                /\ Entry(sseNotifications, x, state)[1].Result # <<>>}}

\* C1: an outcome that sits in a listener's channel or was written to a
\* /watch stream was sent by the store-watch notifier and is the terminal
\* status the session's record in the store holds.
C1_StoredBeforeNotified ==
    \A w \in 1..MaxWatch :
        /\ \A m \in Range(chans[w]) :
              m.by = "watchSessions" /\ RecordOutcome(watch[w].state) # <<>>
        /\ watch[w].events # <<>> => RecordOutcome(watch[w].state) # <<>>

\* C2: a /watch that presents a valid envelope while the outcome of its
\* state is recorded (in the store, or in the table of some replica) answers
\* with exactly one data event and returns at once.
C2_RecordedOutcomeServedAtOnce ==
    [][\A w \in 1..MaxWatch :
          (/\ watch[w].pc = "idle"
           /\ watch'[w].pc # "idle"
           /\ watch'[w].code = 200
           /\ (RecordOutcome(watch'[w].state) # <<>> \/ TableOutcomes(watch'[w].state) # {}))
          => (watch'[w].pc = "done" /\ Len(watch'[w].events) = 1)]_vars

\* C3: a /watch answered 200 that has returned has written at least one
\* data event, unless it returned because the client went away.
C3_NoSilent200 ==
    \A w \in 1..MaxWatch :
        (watch[w].pc = "done" /\ watch[w].code = 200)
        => (Len(watch[w].events) >= 1 \/ watch[w].end = "disconnect")

C3_Witness ==
    \E w \in 1..MaxWatch :
        /\ watch[w].pc = "done" /\ watch[w].code = 200
        /\ watch[w].end = "final" /\ Len(watch[w].events) = 1

\* C4: a /watch stream carries at most one data event, and the event is a
\* terminal status; a notification that arrives after the delivery is
\* never written to the stream.
C4_AtMostOneEvent ==
    \A w \in 1..MaxWatch :
        /\ Len(watch[w].events) <= 1
        /\ \A e \in Range(watch[w].events) : IsTerminal(e)

\* the stream was served from its listener channel, and a later
\* notification for the same record sits in the channel unread
C4_Witness ==
    \E w \in 1..MaxWatch :
        /\ watch[w].end = "sent" /\ Len(watch[w].events) = 1
        /\ chans[w] # <<>>

\* C5: once a callback has answered 200 for a state, a Ready status has
\* been written to the state's record in the store.
C5_SuccessWrittenToStore ==
    \A c \in 1..MaxCallback :
        (callback[c].pc = "done" /\ callback[c].code = 200)
        => (/\ RecordOutcome(callback[c].state) # <<>>
            /\ RecordOutcome(callback[c].state)[1].Ready)

\* the failure a callback reported: recorded for the session, in the store
\* or in the notification table of the replica that answered
FailureRecorded(c) ==
    /\ callback[c].notified # <<>>
    /\ callback[c].notified[1].Error # ""
    /\ \/ RecordOutcome(callback[c].state) = <<callback[c].notified[1]>>
       \/ /\ Entry(sseNotifications, callback[c].replica, callback[c].state) # <<>>
          /\ Entry(sseNotifications, callback[c].replica, callback[c].state)[1].Result
                = <<callback[c].notified[1]>>

\* C6: when a callback that found its session answers with a failure, the
\* Failed status with its error is recorded for the session at the moment
\* the response is returned.
C6_FailureRecordedAtResponse ==
    [][\A c \in 1..MaxCallback :
          (/\ callback[c].pc = "exchange"
           /\ callback'[c].pc = "done"
           /\ callback'[c].code # 200)
          => FailureRecorded(c)']_vars

\* C7: a callback answered 200 (Ready written, refresh envelope minted)
\* had an email claim in its verified identity token.
C7_NoSuccessWithoutEmail ==
    \A c \in 1..MaxCallback :
        (callback[c].pc = "done" /\ (callback[c].code = 200 \/ callback[c].minted # <<>>))
        => callback[c].email # ""

\* C8: a callback for a state that has no session is answered by the
\* record lookup, whatever its other parameters are: 400 "session not
\* found", and no status handed to the notification table.
C8_LookupBeforeOtherChecks ==
    \A c \in 1..MaxCallback :
        (callback[c].pc = "done" /\ callback[c].state = UnknownState)
        => (/\ callback[c].code = 400
            /\ callback[c].body = "Session not found or expired"
            /\ callback[c].notified = <<>>)

\* C9: a callback answers 403 exactly when the allowed groups are not
\* empty and share no group with the user; it then minted nothing, and the
\* Failed status is recorded for the session when the response is returned.
C9_DeniedIsRecorded ==
    [][\A c \in 1..MaxCallback :
          (/\ callback[c].pc = "exchange"
           /\ callback'[c].pc = "done"
           /\ callback'[c].code = 403)
          => (/\ ~isUserAuthorized(AllowedGroups, callback'[c].groups)
              /\ callback'[c].minted = <<>>
              /\ FailureRecorded(c)')]_vars

(***************************************************************************)
(* Properties of the refresh flow.                                         *)
(***************************************************************************)
\* the fields sealed in a refresh envelope
Payload(token) == UnmarshalRefresh(token.bytes.data.plain)

\* C10: the envelope /refresh returns counts one rotation more than the
\* presented envelope, names the same user as the presented envelope and as
\* the email claim of the new ID token, and carries the upstream refresh
\* token the provider returned.
C10_RotationStep ==
    \A i \in DOMAIN refresh :
        \A R \in Range(refresh[i].issued) :
            /\ Payload(R).RotationCounter = Payload(refresh[i].presented).RotationCounter + 1
            /\ Payload(R).UserEmail = Payload(refresh[i].presented).UserEmail
            /\ Payload(R).UserEmail = refresh[i].claimsEmail
            /\ Payload(R).OIDCRefreshToken = refresh[i].upstream

\* a rotated envelope was presented and rotated again, with another
\* upstream token than the one it carried
C10_Witness ==
    \E i \in DOMAIN refresh :
        /\ refresh[i].code = 200
        /\ refresh[i].issued # <<>>
        /\ Payload(refresh[i].presented).RotationCounter = 1
        /\ Payload(refresh[i].issued[1]).RotationCounter = 2
        /\ Payload(refresh[i].issued[1]).OIDCRefreshToken
              # Payload(refresh[i].presented).OIDCRefreshToken

\* C11: a /refresh whose new ID token names another user than the
\* presented envelope is answered 401 with no envelope, and the request
\* changes neither the envelopes in circulation nor any table or record.
C11_MismatchChangesNothing ==
    [][(/\ refresh' # refresh
        /\ refresh' # <<>>
        /\ refresh'[1].claimsParsed
        /\ refresh'[1].claimsEmail # Payload(refresh'[1].presented).UserEmail)
       => (/\ refresh'[1].code = 401
           /\ refresh'[1].issued = <<>>
           /\ UNCHANGED <<held, loginVars, storeVars>>)]_vars

C11_Witness ==
    \E i \in DOMAIN refresh :
        /\ refresh[i].claimsParsed
        /\ refresh[i].claimsEmail = "v@e"
        /\ Payload(refresh[i].presented).UserEmail = "u@e"
        /\ refresh[i].code = 401

Validated == call # <<>> /\ call[1].op \in {"ValidateSessionToken", "ValidateRefreshToken"}

\* the value a validation returned: nil on an error
ReturnedValue ==
    IF call[1].op = "ValidateSessionToken" THEN call[1].result.session
    ELSE call[1].result.refresh

\* C14: a validation that stops at the base64 step returns InvalidToken, at
\* the MAC step InvalidSignature, at the decryption step InvalidToken, at the
\* field decoding InvalidToken and at the expiry step ExpiredToken; fields
\* are returned only when all five steps were run and passed.
C14_ErrorOfEachStep ==
    Validated =>
        LET r == call[1].result
            last == r.steps[Len(r.steps)]
        IN  /\ r.err # ErrNone =>
                /\ r.err = CASE last = "base64" -> ErrInvalidToken
                             [] last = "verify" -> ErrInvalidSignature
                             [] last = "decrypt" -> ErrInvalidToken
                             [] last = "unmarshal" -> ErrInvalidToken
                             [] last = "expiry" -> ErrExpiredToken
                /\ ReturnedValue \in {NoSession, NoRefresh}
            /\ r.err = ErrNone => r.steps = ValidationSteps

\* C15: an envelope created with a positive TTL and validated by the same
\* manager before its expires_at yields no error and exactly the fields
\* that were put in, for session and for refresh envelopes.
C15_RoundTrip ==
    Validated =>
        /\ \A a \in SessionArgs :
              (/\ call[1].op = "ValidateSessionToken"
               /\ call[1].token = SessionTokenOf(a)
               /\ a.ttl > 0 /\ call[1].at < a.at + a.ttl)
              => /\ call[1].result.err = ErrNone
                 /\ call[1].result.session =
                       [State |-> a.state, Verifier |-> a.verifier,
                        CreatedAt |-> a.at, ExpiresAt |-> a.at + a.ttl]
        /\ \A a \in RefreshArgs :
              (/\ call[1].op = "ValidateRefreshToken"
               /\ call[1].token = RefreshTokenOf(a)
               /\ a.ttl > 0 /\ call[1].at < a.at + a.ttl)
              => /\ call[1].result.err = ErrNone
                 /\ call[1].result.refresh =
                       [UserEmail |-> a.userEmail,
                        OIDCRefreshToken |-> a.oidcRefreshToken,
                        RotationCounter |-> a.rotationCounter,
                        IssuedAt |-> a.at, ExpiresAt |-> a.at + a.ttl]

\* a session envelope with a positive TTL was validated before it expired,
\* and it carried a state and a verifier
C15_Witness ==
    /\ Validated
    /\ call[1].op = "ValidateSessionToken"
    /\ \E a \in SessionArgs :
          /\ call[1].token = SessionTokenOf(a)
          /\ a.ttl > 0 /\ call[1].at < a.at + a.ttl
          /\ a.state # "" /\ a.verifier # ""
    /\ call[1].result.err = ErrNone

\* the envelopes signed by a manager with another signing key
SignedByOther ==
    {tok \in ForeignEnvelopes : tok.bytes.mac.key # SigningKey}

\* C16: an envelope with one bit of its decoded bytes flipped (in the MAC,
\* the nonce or the ciphertext), and an envelope signed under another
\* signing key, fail validation with InvalidSignature at the MAC step:
\* the decryption step is not run.
C16_TamperedFailsAtMAC ==
    (Validated /\ call[1].token \in TamperedEnvelopes \cup SignedByOther) =>
        /\ call[1].result.err = ErrInvalidSignature
        /\ call[1].result.steps = <<"base64", "verify">>

\* an envelope that would otherwise validate was presented with a bit of
\* its ciphertext flipped
C16_Witness ==
    /\ Validated
    /\ \E a \in SessionArgs :
          /\ call[1].token = FlipBit(SessionTokenOf(a), "ciphertext")
          /\ ValidateSessionToken(SessionTokenOf(a), now).err = ErrNone
    /\ call[1].op = "ValidateSessionToken"
    /\ call[1].result.err = ErrInvalidSignature

\* C17: an envelope that passes the MAC, the decryption and the decoding is
\* rejected with ExpiredToken exactly when its expires_at is not later than
\* the time of the validation.
C17_ExpiredIffNotAfterNow ==
    (Validated /\ Len(call[1].result.steps) = Len(ValidationSteps)) =>
        (call[1].result.err = ErrExpiredToken
            <=> JsonField(call[1].token.bytes.data.plain, "expires_at", 0) <= call[1].at)

\* C18: a session envelope presented to ValidateRefreshToken and a refresh
\* envelope presented to ValidateSessionToken are rejected.
C18_NotInterchangeable ==
    Validated =>
        /\ (call[1].op = "ValidateRefreshToken" /\ call[1].token \in SessionEnvelopes)
              => call[1].result.err # ErrNone
        /\ (call[1].op = "ValidateSessionToken" /\ call[1].token \in RefreshEnvelopes)
              => call[1].result.err # ErrNone

\* C19: GenerateRandomKey answers a size that is not positive with an
\* error, without a panic and without a key, and a positive size with a key
\* of that length unless reading the random source fails.
C19_SizeChecked ==
    (call # <<>> /\ call[1].op = "GenerateRandomKey") =>
        LET r == call[1].result
        IN  /\ call[1].size <= 0 => r.outcome = "returned" /\ r.err # ErrNone
            /\ (call[1].size > 0 /\ r.err = ErrNone) => Len(r.key) = call[1].size

(***************************************************************************)
(* Properties of the name of the OAuthSession object.                      *)
(***************************************************************************)
\* C20: the name derived from a state starts with "oauth-", has at most 63
\* characters, all of them lowercase letters, digits or '-', and ends with
\* a letter or a digit; the empty state gives "oauth-default" and a state
\* of 100 times 'a' gives "oauth-" and 57 times 'a'.
C20_ValidResourceName ==
    (call # <<>> /\ call[1].op = "sanitizeName") =>
        LET name == call[1].result
        IN  /\ Len(name) >= Len(Prefix) /\ SubSeq(name, 1, Len(Prefix)) = Prefix
            /\ Len(name) <= ResourceNameLimit
            /\ \A i \in 1..Len(name) : name[i] \in LowerCase \cup Digits \cup {"-"}
            /\ name[Len(name)] \in LowerCase \cup Digits
            /\ call[1].state = <<>> => name = Prefix \o Default
            /\ call[1].state = Repeat("a", 100) => name = Prefix \o Repeat("a", 57)

\* C21: deriving the name again from a derived name without its prefix
\* gives the same name.
C21_Idempotent ==
    (call # <<>> /\ call[1].op = "sanitizeName") =>
        sanitizeName(TrimPrefix(call[1].result, Prefix)) = call[1].result

IssuedSessionTokens ==
    {issued[s][1].SessionToken : s \in {x \in States : issued[x] # <<>>}}

C24_MissingRecordIs404 ==
    [][\A w \in 1..MaxWatch, r \in Replicas, tok \in IssuedSessionTokens, fl \in BOOLEAN :
          (/\ WatchBegin(w, r, tok, fl)
           /\ ValidateSessionToken(tok, now).err = ErrNone
           /\ store[tok.bytes.data.plain.state] = <<>>
           /\ Entry(sseNotifications, r, tok.bytes.data.plain.state) = <<>>)
          => /\ watch'[w].code = 404
             /\ UNCHANGED <<sseNotifications, chans>>]_vars

\* C25: when /start-login hands out the envelope of a state, the session
\* object of that state exists.
C25_RecordBeforeEnvelope ==
    [][\A s \in States :
          (issued[s] = <<>> /\ issued'[s] # <<>>) => store'[s] # <<>>]_vars

(***************************************************************************)
(* Properties of the middleware chain.                                     *)
(***************************************************************************)
\* the client IP of a request: X-Real-IP, else the first entry of
\* X-Forwarded-For, else the address of the peer
ClientIP(req) ==
    IF req.xRealIP # "" THEN req.xRealIP
    ELSE IF req.xForwardedFor # <<>> THEN req.xForwardedFor[1]
    ELSE req.remoteIP

KeysOfIP(ip) == {VisitorKey(req) : req \in {r \in Requests : ClientIP(r) = ip}}

\* the tokens taken from the limiter of a key and not yet given back
Spent(key) ==
    IF visitors[key] = <<>> THEN 0
    ELSE RateLimitBurst - TokensAt(visitors[key][1], now)

RECURSIVE SpentOf(_)
SpentOf(keys) ==
    IF keys = {} THEN 0
    ELSE LET k == CHOOSE x \in keys : TRUE IN Spent(k) + SpentOf(keys \ {k})

\* C26: a request is answered 429 exactly when the requests of its client
\* IP have used up the burst; a request answered 429 does not reach the
\* handlers behind the limiter; and a request changes no limiter but the
\* ones of its own client IP.
C26_PerIPBucket ==
    [][\A req \in Requests :
          Middleware(req) =>
              /\ call'[1].resp.code = 429
                    <=> SpentOf(KeysOfIP(ClientIP(req))) >= RateLimitBurst
              /\ call'[1].resp.code = 429 => ~call'[1].resp.reached
              /\ \A k \in Keys :
                    visitors'[k] # visitors[k] => k \in KeysOfIP(ClientIP(req))]_vars

\* C27: every response carries the security headers, whichever handler of
\* the chain wrote it.
C27_SecurityHeadersAlways ==
    (call # <<>> /\ call[1].op = "ServeHTTP") =>
        SecurityHeaderSet \subseteq call[1].resp.headers

\* C29: the status of a session object that is Ready or Failed is not
\* changed by a later operation as long as the object exists, and no object
\* is Ready and carries an error.
C29_TerminalIsFinal ==
    [][\A s \in States :
          /\ (store[s] # <<>> /\ IsTerminal(store[s][1].Status) /\ store'[s] # <<>>)
                => store'[s][1].Status = store[s][1].Status
          /\ store'[s] # <<>>
                => ~(store'[s][1].Status.Ready /\ store'[s][1].Status.Error # "")]_vars

(***************************************************************************)
(* Progress of a /watch stream.                                            *)
(***************************************************************************)
\* C28: when the session object of a state is terminal while a /watch
\* stream for the state is open, the stream ends: it emits the outcome,
\* unless the client goes away first.
C28_OpenStreamGetsOutcome ==
    \A w \in 1..MaxWatch :
        (watch[w].pc = "waiting" /\ RecordOutcome(watch[w].state) # <<>>)
            ~> (watch[w].pc = "done")

\* C30: when the callback of a state stopped before it recorded an outcome
\* and a sweep has deleted the Pending session object of the state, a /watch
\* stream that waits for the state ends.
C30_WaitingStreamEnds ==
    \A w \in 1..MaxWatch :
        (/\ watch[w].pc = "waiting"
         /\ \E c \in 1..MaxCallback :
               callback[c].pc = "exchange" /\ callback[c].state = watch[w].state
         /\ call # <<>> /\ call[1].op = "CleanupOldSessions"
         /\ \E session \in call[1].deleted :
               session.State = watch[w].state /\ ~IsTerminal(session.Status))
            ~> (watch[w].pc = "done")

\* C31: at every moment the listeners in the table are exactly those of the
\* /watch streams that are open: a handler that has returned has left no
\* listener behind, and an open stream has its listener in the table.
C31_TableHoldsOpenStreams ==
    \A w \in 1..MaxWatch :
        (watch[w].pc = "waiting")
            <=> (\E r \in Replicas, s \in States :
                    w \in Range(sseListeners(sseNotifications, r, s)))

\* C35: the event a /watch emits at once, because the outcome was there
\* when it began, is the payload watchSessions sends to a listener for the
\* terminal OAuthSession object of the state.
C35_SamePayloadOnBothPaths ==
    [][\A w \in 1..MaxWatch :
          (/\ watch[w].pc = "idle"
           /\ watch'[w].end = "final"
           /\ RecordOutcome(watch'[w].state) # <<>>)
              => watch'[w].events = RecordOutcome(watch'[w].state)]_vars

SweepFailed ==
    call # <<>> /\ call[1].op = "CleanupOldSessions" /\ "err" \in DOMAIN call[1]

HeldStatus(r) ==
    LET status == tasks.notifier[r].event[1].Object.Status
    IN  StatusResponse(status.Ready, status.Kubeconfig, status.RefreshToken, status.Error)

ObjectsOfOthers(state) == {o \in objects : o.State # state}

\* C38: an operation on a state leaves the objects of all other states as
\* they are and returns none of them, and Create succeeds for a state that
\* has no object of its own.
C38_StatesDoNotCollide ==
    [][\A state \in KeyStates :
          /\ Get(state) =>
                (call'[1].err = "" => call'[1].session[1].State = state)
          /\ ((\E status \in TerminalStatuses : UpdateStatus(state, status))
              \/ Delete(state)) =>
                \A o \in ObjectsOfOthers(state) : o \in objects'
          /\ (Create(state) /\ ObjectsOfOthers(state) = objects) =>
                call'[1].err = ""]_vars

(***************************************************************************)
(* The table of the rate limiter.                                          *)
(***************************************************************************)
\* C39: a wipe leaves no bucket; the first request of a key after a wipe
\* gets a full bucket and is admitted; and at no time does the table hold
\* two buckets for the requests of one client IP.
C39_WipeAndOneBucketPerIP ==
    [][/\ cleanupLoop => \A k \in Keys : visitors'[k] = <<>>
       /\ \A req \in Requests :
             (Middleware(req) /\ visitors[VisitorKey(req)] = <<>>) =>
                 /\ call'[1].resp.code # 429
                 /\ visitors'[VisitorKey(req)] =
                        <<[tokens |-> RateLimitBurst - 1, last |-> now]>>
       /\ \A ip \in IPs :
             Cardinality({k \in KeysOfIP(ip) : visitors'[k] # <<>>}) <= 1]_vars

\* C40: the key of a request is its X-Real-IP header when there is one,
\* else the first entry of its X-Forwarded-For header when there is one,
\* else the remote address of the connection.
C40_KeyOfRequest ==
    (call # <<>> /\ call[1].op = "VisitorKey") =>
        LET req == call[1].req
        IN  call[1].key =
                IF req.xRealIP # "" THEN <<req.xRealIP>>
                ELSE IF req.xForwardedFor # <<>> THEN <<req.xForwardedFor[1]>>
                ELSE <<req.remoteIP \o ":" \o req.remotePort>>

====
